---- MODULE Spec2Model ----
(***************************************************************************)
(* Model of scripts/convert-notebooks.py: the driver that checks for the   *)
(* external notebook converter, converts each configured notebook to       *)
(* Markdown and prepends Jekyll front matter to the converted file.        *)
(*                                                                         *)
(* A text is a sequence of tokens: "LF" and "CR" are the line-break        *)
(* characters, every other token is a run of ordinary characters.          *)
(* The file system is a function from the names of the existing files to   *)
(* their raw content.                                                      *)
(***************************************************************************)
EXTENDS Integers, Sequences, FiniteSets, TLC

\* Number of consecutive invocations of the script that are explored.
MaxRuns == 2

\* The configured jobs, in the insertion order of the dict.
NOTEBOOKS ==
  << [path |-> "examples/user-guide/01-ordination.ipynb", stem |-> "01-ordination",
      title |-> "Ordination Analysis", nav_order |-> 1],
     [path |-> "examples/user-guide/02-statistics.ipynb", stem |-> "02-statistics",
      title |-> "Statistical Analysis", nav_order |-> 2],
     [path |-> "examples/user-guide/03-clustering.ipynb", stem |-> "03-clustering",
      title |-> "Clustering", nav_order |-> 3],
     [path |-> "examples/user-guide/04-ml.ipynb", stem |-> "04-ml",
      title |-> "Machine Learning", nav_order |-> 4] >>

NumJobs == Len(NOTEBOOKS)

Jobs == 1..NumJobs

OUTPUT_DIR == "docs/_tutorials"

\* output_file = OUTPUT_DIR / f"{filename}.md"
OutputFile(j) == OUTPUT_DIR \o "/" \o NOTEBOOKS[j].stem \o ".md"

\* A file of the output directory that belongs to no job.
UnrelatedFile == OUTPUT_DIR \o "/index.md"

\* The front matter f-string of job j.
front_matter(j) ==
  << "---", "LF",
     "layout: default", "LF",
     "title: \"" \o NOTEBOOKS[j].title \o "\"", "LF",
     "parent: Tutorials", "LF",
     "nav_order: " \o ToString(NOTEBOOKS[j].nav_order), "LF",
     "---", "LF",
     "LF" >>

\* f.read() on a file opened in text mode with the default newline=None:
\* universal newlines, "\r\n" and a lone "\r" are both delivered as "\n".
RECURSIVE ReadText(_)
ReadText(raw) ==
  IF raw = <<>> THEN <<>>
  ELSE IF Head(raw) = "CR"
       THEN IF Len(raw) >= 2 /\ raw[2] = "LF"
            THEN <<"LF">> \o ReadText(SubSeq(raw, 3, Len(raw)))
            ELSE <<"LF">> \o ReadText(Tail(raw))
       ELSE <<Head(raw)>> \o ReadText(Tail(raw))

\* os.linesep of the platform the script runs on (POSIX).
Linesep == <<"LF">>

\* f.write() on a file opened in text mode with the default newline=None:
\* every "\n" is written as os.linesep.
RECURSIVE WriteText(_)
WriteText(text) ==
  IF text = <<>> THEN <<>>
  ELSE (IF Head(text) = "LF" THEN Linesep ELSE <<Head(text)>>) \o WriteText(Tail(text))

\* The file system fs after name has been (over)written with raw.
Put(fs, name, raw) ==
  [n \in (DOMAIN fs) \cup {name} |-> IF n = name THEN raw ELSE fs[n]]

\* What is at name in fs: the empty function when there is no such file.
At(fs, name) == [n \in (DOMAIN fs) \cap {name} |-> fs[n]]

\* output_file.exists()
OutputExists(fs, j) == OutputFile(j) \in DOMAIN fs

\* Contents the external converter may write.
Bodies ==
  { <<"# Title", "LF", "LF", "Body text">>,
    <<"cell one", "CR", "LF", "cell two", "CR">> }

\* Behaviours of one conversion call that returns: its exit status and what
\* it wrote to <stem>.md, if anything.
Outcomes ==
  [exit : {0, 1}, wrote : {TRUE}, data : Bodies]
    \cup [exit : {0, 1}, wrote : {FALSE}, data : {<<>>}]

\* Results of the version query: it exits 0, it exits non-zero, or the
\* jupyter executable is not found.
VersionQueryOutcomes == {"ok", "nonzero", "absent"}

\* States of the output directory the script may be started in: absent,
\* present with an unrelated file, or present with, in addition, the
\* annotated outputs an earlier run left for some of the jobs.
LeftoverSets == {{}, {1}, {3, 4}, Jobs}

InitialDirs ==
  { [exists |-> FALSE, files |-> [n \in {} |-> <<>>]] }
    \cup { [exists |-> TRUE,
            files |-> [n \in {UnrelatedFile} \cup {OutputFile(j) : j \in L} |->
                         IF n = UnrelatedFile
                         THEN <<"# Tutorials", "CR", "LF">>
                         ELSE LET j == CHOOSE k \in L : OutputFile(k) = n
                              IN  front_matter(j) \o <<"old text">>]]
           : L \in LeftoverSets }

VARIABLES
  pc,             \* control point of the script
  run,            \* number of the current invocation of the script
  i,              \* index in NOTEBOOKS of the job being processed
  dirExists,      \* OUTPUT_DIR exists
  files,          \* the files of OUTPUT_DIR
  content,        \* local variable content of convert_notebook
  success_count,  \* local variable success_count of main
  exitCode,       \* exit status of the process, -1 while it runs
  summary,        \* <<succeeded, total>> once the summary line is printed
  conv,           \* behaviour of the external converter on each job
  depOutcome,     \* result of the version query of this run
  attempted,      \* conversion calls made for each job in this run
  result,         \* return value of convert_notebook for each job in this run
  ioLog,          \* calls that returned to the driver in this run: <<operation, job>>
  afterConv,      \* what was at each output path when the converter returned
  startFiles,     \* files when this run started
  startDir        \* dirExists when this run started

vars ==
  << pc, run, i, dirExists, files, content, success_count, exitCode, summary,
     conv, depOutcome, attempted, result, ioLog, afterConv, startFiles, startDir >>

env == << run, conv, startFiles, startDir >>

Init ==
  /\ pc = "check"
  /\ run = 1
  /\ i = 0
  /\ \E d \in InitialDirs :
       /\ dirExists = d.exists
       /\ files = d.files
       /\ startDir = d.exists
       /\ startFiles = d.files
  /\ content = <<>>
  /\ success_count = 0
  /\ exitCode = -1
  /\ summary = <<>>
  /\ conv = [j \in {} |-> [exit |-> 0, wrote |-> FALSE, data |-> <<>>]]
  /\ depOutcome = "none"
  /\ attempted = [j \in Jobs |-> 0]
  /\ result = [j \in Jobs |-> "none"]
  /\ ioLog = {}
  /\ afterConv = [j \in Jobs |-> [n \in {} |-> <<>>]]

\* check_dependencies without check=True: a non-zero exit goes unnoticed.
check_dependencies_unchecked(outcome) == outcome # "absent"

\* check_dependencies(): True iff the version query ran and exited 0; both
\* CalledProcessError and FileNotFoundError are caught.
check_dependencies(outcome) == outcome = "ok"

\* for notebook, config in NOTEBOOKS.items(): the control point after job j.
Advance(j) ==
  IF j < NumJobs THEN [pc |-> "mkdir", i |-> j + 1] ELSE [pc |-> "summary", i |-> j]

\* if convert_notebook(notebook, config): success_count += 1
CountSuccess(count, ok) == IF ok THEN count + 1 ELSE count

\* The handler leaves the loop instead of returning to it.
AfterConvertError_break(j) == [pc |-> "summary", i |-> j]

\* The handler calls the converter again, up to two more times.
AfterConvertError_retry(j) ==
  IF attempted[j] < 2 THEN [pc |-> "convert", i |-> j] ELSE Advance(j)

\* The handler swallows the error and goes on to annotate the output.
AfterConvertError_fallthrough(j) == [pc |-> "exists", i |-> j]

\* except subprocess.CalledProcessError: print, return False; the control
\* point after the handler of job j.
AfterConvertError(j) == Advance(j)

\* The directory is removed and created anew when it exists.
Mkdir_recreate(exists, fs) == IF exists THEN [n \in {} |-> <<>>] ELSE fs

\* OUTPUT_DIR.mkdir(parents=True, exist_ok=True): the files of the directory.
Mkdir(exists, fs) == fs

\* main exits 1 when some job failed.
ExitStatus_strict(count) == IF count < NumJobs THEN 1 ELSE 0

\* The exit status of a run that reaches the end of main.
ExitStatus(count) == 0

\* convert_notebook returns ok for job i and main goes on at next.
Return(ok, next) ==
  /\ result' = [result EXCEPT ![i] = IF ok THEN "ok" ELSE "failed"]
  /\ success_count' = CountSuccess(success_count, ok)
  /\ pc' = next.pc
  /\ i' = next.i

\* An exception nothing catches: traceback, exit status 1.
Crash ==
  /\ pc' = "crashed"
  /\ exitCode' = 1
  /\ UNCHANGED << i, success_count, summary, result >>

\* main: the dependency check, sys.exit(1) when it fails.
CheckDependencies ==
  /\ pc = "check"
  /\ \E outcome \in VersionQueryOutcomes :
       /\ depOutcome' = outcome
       /\ IF check_dependencies(outcome)
          THEN /\ success_count' = 0
               /\ pc' = Advance(0).pc
               /\ i' = Advance(0).i
               /\ exitCode' = exitCode
          ELSE /\ pc' = "exit1"
               /\ exitCode' = 1
               /\ UNCHANGED << i, success_count >>
  /\ UNCHANGED << dirExists, files, content, summary, attempted, result, ioLog,
                  afterConv, env >>

\* convert_notebook: OUTPUT_DIR.mkdir(parents=True, exist_ok=True)
MakeOutputDir ==
  /\ pc = "mkdir"
  /\ dirExists' = TRUE
  /\ files' = Mkdir(dirExists, files)
  /\ ioLog' = ioLog \cup {<<"mkdir", i>>}
  /\ pc' = "convert"
  /\ UNCHANGED << i, content, success_count, exitCode, summary, depOutcome,
                  attempted, result, afterConv, env >>

\* convert_notebook: subprocess.run([... nbconvert --to markdown ...], check=True)
\* returns or raises CalledProcessError.  The converter behaves on a job as it
\* did in the earlier run, if there was one.
RunConverter ==
  /\ pc = "convert"
  /\ \E o \in (IF i \in DOMAIN conv THEN {conv[i]} ELSE Outcomes) :
       /\ conv' = [j \in (DOMAIN conv) \cup {i} |-> IF j = i THEN o ELSE conv[j]]
       /\ files' = IF o.wrote THEN Put(files, OutputFile(i), o.data) ELSE files
       /\ afterConv' = [afterConv EXCEPT ![i] = At(files', OutputFile(i))]
       /\ IF o.exit # 0
          THEN Return(FALSE, AfterConvertError(i))
          ELSE /\ pc' = "exists"
               /\ UNCHANGED << i, success_count, result >>
  /\ attempted' = [attempted EXCEPT ![i] = @ + 1]
  /\ ioLog' = ioLog \cup {<<"converted", i>>}
  /\ UNCHANGED << run, dirExists, content, exitCode, summary, depOutcome,
                  startFiles, startDir >>

\* convert_notebook: subprocess.run raises FileNotFoundError (the executable
\* is gone); only CalledProcessError is caught.
ConverterNotFound ==
  /\ pc = "convert"
  /\ attempted' = [attempted EXCEPT ![i] = @ + 1]
  /\ Crash
  /\ UNCHANGED << dirExists, files, content, depOutcome, ioLog, afterConv, env >>

\* convert_notebook: if not output_file.exists(): print warning, return False
CheckExists ==
  /\ pc = "exists"
  /\ ioLog' = ioLog \cup {<<"exists", i>>}
  /\ IF OutputExists(files, i)
     THEN /\ pc' = "read"
          /\ UNCHANGED << i, success_count, result >>
     ELSE Return(FALSE, Advance(i))
  /\ UNCHANGED << dirExists, files, content, exitCode, summary, depOutcome,
                  attempted, afterConv, env >>

\* convert_notebook: with open(output_file, 'r', encoding='utf-8'): content = f.read()
ReadContent ==
  /\ pc = "read"
  /\ content' = ReadText(files[OutputFile(i)])
  /\ ioLog' = ioLog \cup {<<"read", i>>}
  /\ pc' = "write"
  /\ UNCHANGED << i, dirExists, files, success_count, exitCode, summary,
                  depOutcome, attempted, result, afterConv, env >>

\* convert_notebook: open or read raises (OSError, UnicodeDecodeError).
ReadFault ==
  /\ pc = "read"
  /\ Crash
  /\ UNCHANGED << dirExists, files, content, depOutcome, attempted, ioLog,
                  afterConv, env >>

\* convert_notebook: with open(output_file, 'w', encoding='utf-8'):
\* f.write(front_matter + content); print; return True
WriteFrontMatter ==
  /\ pc = "write"
  /\ files' = Put(files, OutputFile(i), WriteText(front_matter(i) \o content))
  /\ ioLog' = ioLog \cup {<<"write", i>>}
  /\ Return(TRUE, Advance(i))
  /\ UNCHANGED << dirExists, content, exitCode, summary, depOutcome, attempted,
                  afterConv, env >>

\* convert_notebook: open(output_file, 'w') raises and leaves the file alone,
\* or it truncates the file and f.write raises.
WriteFault ==
  /\ pc = "write"
  /\ \E truncated \in BOOLEAN :
       IF truncated
       THEN /\ files' = Put(files, OutputFile(i), <<>>)
            /\ ioLog' = ioLog \cup {<<"truncate", i>>}
       ELSE UNCHANGED << files, ioLog >>
  /\ Crash
  /\ UNCHANGED << dirExists, content, depOutcome, attempted, afterConv, env >>

\* main: print the summary line and the next steps, fall off the end.
Summarize ==
  /\ pc = "summary"
  /\ summary' = <<success_count, Len(NOTEBOOKS)>>
  /\ exitCode' = ExitStatus(success_count)
  /\ pc' = "done"
  /\ UNCHANGED << i, dirExists, files, content, success_count, depOutcome,
                  attempted, result, ioLog, afterConv, env >>

\* The script is run again after a run that completed.
Rerun ==
  /\ pc = "done"
  /\ run < MaxRuns
  /\ run' = run + 1
  /\ pc' = "check"
  /\ i' = 0
  /\ content' = <<>>
  /\ success_count' = 0
  /\ exitCode' = -1
  /\ summary' = <<>>
  /\ depOutcome' = "none"
  /\ attempted' = [j \in Jobs |-> 0]
  /\ result' = [j \in Jobs |-> "none"]
  /\ ioLog' = {}
  /\ afterConv' = [j \in Jobs |-> [n \in {} |-> <<>>]]
  /\ startFiles' = files
  /\ startDir' = dirExists
  /\ UNCHANGED << dirExists, files, conv >>

Next ==
  \/ CheckDependencies
  \/ MakeOutputDir
  \/ RunConverter
  \/ ConverterNotFound
  \/ CheckExists
  \/ ReadContent
  \/ ReadFault
  \/ WriteFrontMatter
  \/ WriteFault
  \/ Summarize
  \/ Rerun

Spec == Init /\ [][Next]_vars

Terminated == pc \in {"done", "exit1", "crashed"}

TypeOK ==
  /\ pc \in {"check", "mkdir", "convert", "exists", "read", "write", "summary",
             "done", "exit1", "crashed"}
  /\ run \in 1..MaxRuns
  /\ i \in 0..NumJobs
  /\ dirExists \in BOOLEAN
  /\ success_count \in 0..NumJobs
  /\ exitCode \in {-1, 0, 1}
  /\ DOMAIN conv \subseteq Jobs
  /\ \A j \in DOMAIN conv : conv[j] \in Outcomes
  /\ depOutcome \in VersionQueryOutcomes \cup {"none"}
  /\ \A j \in Jobs : result[j] \in {"none", "failed", "ok"}

(***************************************************************************)
(* Properties                                                              *)
(***************************************************************************)

\* The conversion call of job j was made in this run and exited non-zero.
ConvertFailed(j) ==
  <<"converted", j>> \in ioLog /\ conv[j].exit # 0

\* The conversion call of job j exited 0 and the existence check then found
\* no file at the output path.
OutputMissing(j) ==
  /\ <<"converted", j>> \in ioLog /\ conv[j].exit = 0
  /\ <<"exists", j>> \in ioLog
  /\ afterConv[j] = At([n \in {} |-> <<>>], OutputFile(j))

\* C1: when the version query fails, because the executable is absent or
\* because it exits non-zero, the run makes no conversion call, performs no
\* file-system operation (no mkdir, no existence check, read or write of an
\* output file), leaves the directory as it found it, and exits non-zero.
C1_DependencyFailureAborts ==
  depOutcome \in {"nonzero", "absent"} =>
    /\ pc = "exit1"
    /\ exitCode = 1
    /\ \A j \in Jobs : attempted[j] = 0 /\ result[j] = "none"
    /\ ioLog = {}
    /\ files = startFiles
    /\ dirExists = startDir

C1_Witness ==
  /\ depOutcome = "nonzero"
  /\ pc = "exit1"
  /\ ~dirExists

\* C2: a conversion call of job a that exits non-zero never keeps a later job
\* b from being converted: while b has not been attempted the run is at a job
\* after a and no later than b (still working, or aborted there by an
\* exception of that job), so a run that reaches its end has attempted
\* every job after a.
C2_FailureDoesNotStopLaterJobs ==
  \A a, b \in Jobs :
    (a < b /\ ConvertFailed(a) /\ attempted[b] = 0) =>
      /\ a < i
      /\ i <= b
      /\ pc \in {"mkdir", "convert", "exists", "read", "write", "crashed"}

C2_Witness ==
  /\ ConvertFailed(1)
  /\ ConvertFailed(2)
  /\ \A b \in Jobs : attempted[b] = 1
  /\ result[NumJobs] = "ok"
  /\ pc = "done"

\* C3: for every job reported as succeeded the output file holds the front
\* matter of the job followed by exactly what the converter wrote for the
\* job in this run.
C3_HeaderPlusConverted ==
  \A j \in Jobs :
    result[j] = "ok" =>
      /\ conv[j].wrote
      /\ files[OutputFile(j)] = front_matter(j) \o conv[j].data

\* C4: with a converter that behaves the same on every run, a second
\* complete run leaves every output file as the first complete run left it.
C4_SecondRunChangesNothing ==
  (run >= 2 /\ pc = "done") => files = startFiles

\* C5: the summary reports as succeeded the number of jobs whose conversion
\* call exited 0 and whose output was found and annotated, out of the number
\* of configured jobs; when only the call for job 2 fails it reports 3/4 and
\* the outputs of jobs 1, 3 and 4 are front matter + converted content.
C5_SummaryCounts ==
  pc = "done" =>
    /\ summary =
         << Cardinality({j \in Jobs : conv[j].exit = 0 /\ result[j] = "ok"}),
            Cardinality(DOMAIN NOTEBOOKS) >>
    /\ (/\ conv[2].exit # 0
        /\ \A j \in Jobs \ {2} : conv[j].exit = 0 /\ conv[j].wrote)
       => /\ summary = <<3, 4>>
          /\ \A j \in Jobs \ {2} :
               files[OutputFile(j)] = front_matter(j) \o conv[j].data

\* The counting half of C5 alone.
SummaryCountsOnly ==
  pc = "done" =>
    summary =
      << Cardinality({j \in Jobs : conv[j].exit = 0 /\ result[j] = "ok"}),
         Cardinality(DOMAIN NOTEBOOKS) >>

\* C6 as stated: once the version query succeeded the run ends with the
\* summary printed and exit status 0, whatever happens to the jobs.
C6_AlwaysExitsZero ==
  (depOutcome = "ok" /\ Terminated) =>
    /\ pc = "done"
    /\ exitCode = 0
    /\ summary # <<>>

\* C6 amended: once the version query succeeded, a run ends either with the
\* summary printed and exit status 0, however many jobs failed to convert or
\* lacked their output, or at the job being processed with exit status 1 and
\* no summary, because an exception was not caught.
C6_ExitsZeroUnlessUncaught ==
  (depOutcome = "ok" /\ Terminated) =>
    \/ /\ pc = "done"
       /\ exitCode = 0
       /\ summary = <<success_count, NumJobs>>
       /\ \A j \in Jobs : result[j] # "none"
    \/ /\ pc = "crashed"
       /\ exitCode = 1
       /\ summary = <<>>
       /\ result[i] = "none"
       /\ ~ConvertFailed(i)
       /\ ~OutputMissing(i)

C6_Witness ==
  /\ pc = "done"
  /\ exitCode = 0
  /\ \E j \in Jobs : ConvertFailed(j)
  /\ \E j \in Jobs : OutputMissing(j)
  /\ success_count < NumJobs

\* C7: once mkdir has run the output directory exists, an existing directory
\* is kept, and in the directory the only files that appear or change are
\* the outputs <stem>.md of the configured jobs: every other file keeps the
\* content it had when the run started.
C7_DirectoryReused ==
  /\ startDir => dirExists
  /\ (\E j \in Jobs : <<"mkdir", j>> \in ioLog) => dirExists
  /\ pc \in {"convert", "exists", "read", "write"} =>
       (dirExists /\ <<"mkdir", i>> \in ioLog)
  /\ \A n \in (DOMAIN startFiles) \ {OutputFile(j) : j \in Jobs} :
       n \in DOMAIN files /\ files[n] = startFiles[n]
  /\ DOMAIN files \subseteq (DOMAIN startFiles) \cup {OutputFile(j) : j \in Jobs}

C7_Witness ==
  /\ pc = "done"
  /\ startDir
  /\ UnrelatedFile \in DOMAIN files
  /\ \A j \in Jobs : result[j] = "ok"

\* C8: the converter is called at most once per job and run, and when it is
\* called for a job every earlier job of the configured order is finished:
\* marked failed, or annotated and marked succeeded.
C8_SequentialNoRetry ==
  /\ \A j \in Jobs : attempted[j] <= 1
  /\ \A a, b \in Jobs :
       (a < b /\ attempted[b] >= 1) =>
         \/ result[a] = "failed"
         \/ result[a] = "ok" /\ <<"write", a>> \in ioLog

C8_Witness ==
  /\ attempted[NumJobs] = 1
  /\ ConvertFailed(1)
  /\ result[2] = "ok"

\* C9: after a conversion call that exits 0 without writing the output file
\* in this run, the job is marked failed and no front matter is written,
\* also when a file of that name was there before.
C9_StaleOutputRejected ==
  \A j \in Jobs :
    (/\ <<"converted", j>> \in ioLog
     /\ conv[j].exit = 0 /\ ~conv[j].wrote
     /\ <<"exists", j>> \in ioLog)
    => /\ pc \notin {"read", "write"} \/ i # j
       /\ result[j] # "ok"
       /\ <<"write", j>> \notin ioLog

\* C10: for a job marked failed, because its conversion call exited non-zero
\* or its output was missing, the driver writes nothing to the output path:
\* what the converter left there is still there; front matter is written
\* only for jobs reported as succeeded.
C10_FailedJobsNotWritten ==
  \A j \in Jobs :
    /\ (result[j] = "failed" \/ ConvertFailed(j) \/ OutputMissing(j)) =>
         /\ <<"write", j>> \notin ioLog
         /\ <<"truncate", j>> \notin ioLog
         /\ At(files, OutputFile(j)) = afterConv[j]
    /\ <<"write", j>> \in ioLog =>
         /\ result[j] = "ok"
         /\ ~ConvertFailed(j)

C10_Witness ==
  /\ pc = "done"
  /\ \E j \in Jobs : ConvertFailed(j) /\ conv[j].wrote /\ result[j] = "failed"
  /\ \E j \in Jobs : OutputMissing(j) /\ result[j] = "failed"
  /\ \E j \in Jobs : result[j] = "ok"
====
